---- MODULE Spec2Model ----
(***************************************************************************)
(* A model of tanmatsu's Terminal for all non-Redox operating systems      *)
(* (src/src/sys/other.rs): the output operations, which enqueue structured *)
(* crossterm commands or raw escape sequences into the one output sink     *)
(* self.stdout, and the input operations read_event / poll_event, which    *)
(* translate one raw crossterm event into a normalized Event.              *)
(***************************************************************************)
EXTENDS Integers, Sequences, FiniteSets, TLC

\* ------------------------------------------------------------------ bounds

\* At most MaxOps output operations are enqueued without a flush.
MaxOps == 2
\* In the specifications that flush, at most MaxPending chunks wait in the sink.
MaxPending == 1
\* The screen of the terminal behind the sink, in cells.
Width == 2
Height == 2
\* move_cursor_*_by is called with 1..MaxCells cells.
MaxCells == 2

VARIABLES
    sink,       \* self.stdout: the chunks enqueued and not yet flushed, oldest first
    log,        \* history: the output operations that enqueued the chunks of sink
    size,       \* self.size: the cached Size
    ret,        \* the value the last operation returned
    raw,        \* what the backend handed to the last input operation
    status,     \* "running", or "panicked" after an .unwrap() of an Err
    lastOp,     \* the name of the last operation called
    fault,      \* whether a backend call of the last operation failed
    lastResize, \* history: the dimensions of the last raw Resize event read
    rawMode,    \* the process-wide raw mode of the OS terminal
    target,     \* the build target: cfg(target_os = "windows") or not
    term,       \* the terminal behind the sink: what has been flushed to it
    lastSave,   \* history: where the cursor was at the last save_cursor_point
    overwrote   \* history: whether the last save replaced a different position

vars == <<sink, log, size, ret, raw, status, lastOp, fault, lastResize,
          rawMode, target, term, lastSave, overwrote>>

\* ------------------------------------------------------------- value types

Point(x, y) == [x |-> x, y |-> y]
Points == {Point(x, y) : x \in 0 .. Width - 1, y \in 0 .. Height - 1}
NoPoint == [x |-> -1, y |-> -1]

MkSize(w, h) == [width |-> w, height |-> h]
\* The dimensions a raw Resize event or the OS size query may carry.
Widths == {80, 120}
Heights == {40}
Sizes == {MkSize(w, h) : w \in Widths, h \in Heights}

\* util::Color, as [tag, r, g, b]: a named colour, Rgb {r, g, b} or Byte(r).
Color(tag, r, g, b) == [tag |-> tag, r |-> r, g |-> g, b |-> b]
\* The colours the operations are called with.
Colors == {Color("DarkGray", 0, 0, 0), Color("Red", 0, 0, 0),
           Color("Gray", 0, 0, 0), Color("Rgb", 255, 0, 128),
           Color("Byte", 200, 0, 0)}
NoColor == Color("None", 0, 0, 0)

\* Raw text is a sequence of characters; ESC is U+001B and BEL is U+0007.
ESC == "ESC"
BEL == "BEL"
\* The hexadecimal colour strings and titles the operations are called with.
HexColors == {<<"F", "F", "0", "0", "F", "F">>, <<"z">>}
Titles == {<<"t">>}
Directions == {"up", "down", "left", "right"}

\* ------------------------------------------------------------ the sink

\* One chunk of the sink: a crossterm command (cmd, with its fields) or, with
\* cmd = "Raw", the characters of a raw write.
Command(cmd, x, y, color, text) ==
    [cmd |-> cmd, x |-> x, y |-> y, color |-> color, text |-> text]
Simple(cmd) == Command(cmd, 0, 0, NoColor, <<>>)
Raw(text) == Command("Raw", 0, 0, NoColor, text)

\* A mutant of queue: the command goes in front of what is already enqueued.
queue_in_front(s, command) == <<command>> \o s

\* self.stdout.queue(command): the command is appended to the sink.
queue(s, command) == Append(s, command)

\* self.write(string): the characters are written to the same self.stdout.
write(s, string) == Append(s, Raw(string))

\* One call of an output operation, as the history records it.
Call(op, x, y, color, text) ==
    [op |-> op, x |-> x, y |-> y, color |-> color, text |-> text]
Call0(op) == Call(op, 0, 0, NoColor, <<>>)

Unit == [kind |-> "Unit"]
NoRaw ==
    [poll |-> "none", read |-> "none",
     ev |-> [type |-> "None", tag |-> "None", ch |-> "", num |-> 0,
             button |-> "None", modifiers |-> {}, a |-> 0, b |-> 0]]

\* An output operation's step: the write into the sink succeeds, or it fails
\* and the .unwrap() panics.
Emit(call, newSink) ==
    /\ status = "running"
    /\ \E ok \in BOOLEAN :
        /\ fault' = ~ok
        /\ IF ok
           THEN /\ sink' = newSink
                /\ log' = Append(log, call)
                /\ status' = "running"
           ELSE /\ UNCHANGED <<sink, log>>
                /\ status' = "panicked"
    /\ lastOp' = call.op
    /\ ret' = Unit
    /\ raw' = NoRaw
    /\ UNCHANGED <<size, lastResize, rawMode, target, term>>

\* An output operation other than save_cursor_point.
Output(call, newSink) ==
    /\ Emit(call, newSink)
    /\ UNCHANGED <<lastSave, overwrote>>

\* ------------------------------------------------- the output operations

enter_alternate_dimension ==
    Output(Call0("enter_alternate_dimension"),
           queue(sink, Simple("EnterAlternateScreen")))

exit_alternate_dimension ==
    Output(Call0("exit_alternate_dimension"),
           queue(sink, Simple("LeaveAlternateScreen")))

set_title ==
    \E title \in Titles :
        Output(Call("set_title", 0, 0, NoColor, title),
               queue(sink, Command("SetTitle", 0, 0, NoColor, title)))

enable_mouse_capture ==
    Output(Call0("enable_mouse_capture"),
           queue(sink, Simple("EnableMouseCapture")))

disable_mouse_capture ==
    Output(Call0("disable_mouse_capture"),
           queue(sink, Simple("DisableMouseCapture")))

show_cursor == Output(Call0("show_cursor"), queue(sink, Simple("Show")))

hide_cursor == Output(Call0("hide_cursor"), queue(sink, Simple("Hide")))

set_cursor ==
    \E point \in Points :
        Output(Call("set_cursor", point.x, point.y, NoColor, <<>>),
               queue(sink, Command("MoveTo", point.x, point.y, NoColor, <<>>)))

set_cursor_x ==
    \E x \in 0 .. Width - 1 :
        Output(Call("set_cursor_x", x, 0, NoColor, <<>>),
               queue(sink, Command("MoveToColumn", x, 0, NoColor, <<>>)))

set_cursor_y ==
    \E y \in 0 .. Height - 1 :
        Output(Call("set_cursor_y", 0, y, NoColor, <<>>),
               queue(sink, Command("MoveToRow", 0, y, NoColor, <<>>)))

\* cursor::MoveUp / MoveDown / MoveLeft / MoveRight, by direction.
MoveCommand(dir) ==
    CASE dir = "up" -> "MoveUp"
      [] dir = "down" -> "MoveDown"
      [] dir = "left" -> "MoveLeft"
      [] dir = "right" -> "MoveRight"

\* What move_cursor_{up,down,left,right}_by(cells) makes of the sink s.
move_cursor_by_sink(s, dir, cells) ==
    queue(s, Command(MoveCommand(dir), cells, 0, NoColor, <<>>))

move_cursor_by ==
    \E dir \in Directions, cells \in 1 .. MaxCells :
        Output(Call("move_cursor_" \o dir \o "_by", cells, 0, NoColor, <<>>),
               move_cursor_by_sink(sink, dir, cells))

\* The last character of the raw single-cell move: ESC [ A / B / D / C.
MoveLetter(dir) ==
    CASE dir = "up" -> "A"
      [] dir = "down" -> "B"
      [] dir = "left" -> "D"
      [] dir = "right" -> "C"

\* A mutant of move_cursor_other: left and right write each other's letter.
move_cursor_other_swapped(s, dir) ==
    write(s, <<ESC, "[", MoveLetter(CASE dir = "left" -> "right"
                                      [] dir = "right" -> "left"
                                      [] OTHER -> dir)>>)

\* move_cursor_{up,down,left,right} under cfg(not(target_os = "windows")).
move_cursor_other(s, dir) == write(s, <<ESC, "[", MoveLetter(dir)>>)

\* move_cursor_{up,down,left,right} under cfg(target_os = "windows").
move_cursor_windows(s, dir) == move_cursor_by_sink(s, dir, 1)

move_cursor ==
    \E dir \in Directions :
        Output(Call0("move_cursor_" \o dir),
               IF target = "windows"
               THEN move_cursor_windows(sink, dir)
               ELSE move_cursor_other(sink, dir))

restore_cursor_point ==
    Output(Call0("restore_cursor_point"),
           queue(sink, Simple("RestorePosition")))

\* Color -> style::Color.
convert_color(color) ==
    CASE color.tag = "Black" -> Color("Black", 0, 0, 0)
      [] color.tag = "DarkGray" -> Color("DarkGrey", 0, 0, 0)
      [] color.tag = "Red" -> Color("Red", 0, 0, 0)
      [] color.tag = "DarkRed" -> Color("DarkRed", 0, 0, 0)
      [] color.tag = "Green" -> Color("Green", 0, 0, 0)
      [] color.tag = "DarkGreen" -> Color("DarkGreen", 0, 0, 0)
      [] color.tag = "Yellow" -> Color("Yellow", 0, 0, 0)
      [] color.tag = "DarkYellow" -> Color("DarkYellow", 0, 0, 0)
      [] color.tag = "Blue" -> Color("Blue", 0, 0, 0)
      [] color.tag = "DarkBlue" -> Color("DarkBlue", 0, 0, 0)
      [] color.tag = "Magenta" -> Color("Magenta", 0, 0, 0)
      [] color.tag = "DarkMagenta" -> Color("DarkMagenta", 0, 0, 0)
      [] color.tag = "Cyan" -> Color("Cyan", 0, 0, 0)
      [] color.tag = "DarkCyan" -> Color("DarkCyan", 0, 0, 0)
      [] color.tag = "White" -> Color("White", 0, 0, 0)
      [] color.tag = "Gray" -> Color("Grey", 0, 0, 0)
      [] color.tag = "Rgb" -> Color("Rgb", color.r, color.g, color.b)
      [] color.tag = "Byte" -> Color("AnsiValue", color.r, 0, 0)

set_foreground_color ==
    \E color \in Colors :
        Output(Call("set_foreground_color", 0, 0, color, <<>>),
               queue(sink, Command("SetForegroundColor", 0, 0,
                                   convert_color(color), <<>>)))

set_background_color ==
    \E color \in Colors :
        Output(Call("set_background_color", 0, 0, color, <<>>),
               queue(sink, Command("SetBackgroundColor", 0, 0,
                                   convert_color(color), <<>>)))

change_foreground_color ==
    \E hex_color \in HexColors :
        Output(Call("change_foreground_color", 0, 0, NoColor, hex_color),
               write(sink, <<ESC, "]", "1", "0", ";", "#">> \o hex_color
                           \o <<BEL>>))

reset_foreground_color ==
    Output(Call0("reset_foreground_color"),
           write(sink, <<ESC, "]", "1", "1", "0", BEL>>))

change_background_color ==
    \E hex_color \in HexColors :
        Output(Call("change_background_color", 0, 0, NoColor, hex_color),
               write(sink, <<ESC, "]", "1", "1", ";", "#">> \o hex_color
                           \o <<BEL>>))

reset_background_color ==
    Output(Call0("reset_background_color"),
           write(sink, <<ESC, "]", "1", "1", "1", BEL>>))

change_cursor_color ==
    \E hex_color \in HexColors :
        Output(Call("change_cursor_color", 0, 0, NoColor, hex_color),
               write(sink, <<ESC, "]", "1", "2", ";", "#">> \o hex_color
                           \o <<BEL>>))

reset_cursor_color ==
    Output(Call0("reset_cursor_color"),
           write(sink, <<ESC, "]", "1", "1", "2", BEL>>))

\* format!("{}", style::Attribute::Italic): the SGR sequence of the attribute.
enable_italic ==
    Output(Call0("enable_italic"), write(sink, <<ESC, "[", "3", "m">>))

disable_italic ==
    Output(Call0("disable_italic"), write(sink, <<ESC, "[", "2", "3", "m">>))

reset_colors ==
    Output(Call0("reset_colors"), queue(sink, Simple("ResetColor")))

clear ==
    Output(Call0("clear"),
           queue(sink, Command("Clear", 0, 0, NoColor, <<"All">>)))

clear_from_cursor_to_end ==
    Output(Call0("clear_from_cursor_to_end"),
           queue(sink, Command("Clear", 0, 0, NoColor, <<"FromCursorUp">>)))

\* ------------------------------------------ the terminal behind the sink

\* The terminal is [cursor, saved, cells]: the cursor, the one saved cursor
\* position, and for each cell (row by row) whether it still shows content.
CellIndex(p) == p.y * Width + p.x
Cells == 0 .. Width * Height - 1

Min(a, b) == IF a < b THEN a ELSE b
Max(a, b) == IF a > b THEN a ELSE b

\* The cursor moved by n cells, stopping at the edge of the screen.
Step(p, dir, n) ==
    CASE dir = "up" -> Point(p.x, Max(0, p.y - n))
      [] dir = "down" -> Point(p.x, Min(Height - 1, p.y + n))
      [] dir = "left" -> Point(Max(0, p.x - n), p.y)
      [] dir = "right" -> Point(Min(Width - 1, p.x + n), p.y)

DigitValue(c) ==
    CASE c = "0" -> 0 [] c = "1" -> 1 [] c = "2" -> 2 [] c = "3" -> 3
      [] c = "4" -> 4 [] c = "5" -> 5 [] c = "6" -> 6 [] c = "7" -> 7
      [] c = "8" -> 8 [] c = "9" -> 9

RECURSIVE Decimal(_)
Decimal(digits) ==
    IF digits = <<>> THEN 0
    ELSE 10 * Decimal(SubSeq(digits, 1, Len(digits) - 1))
         + DigitValue(digits[Len(digits)])

\* The count of a cursor-move control sequence ESC [ <digits> <letter>: the
\* digits' value, and 1 when there are none or they say 0.
MoveCount(text) ==
    LET n == Decimal(SubSeq(text, 3, Len(text) - 1))
    IN  IF n = 0 THEN 1 ELSE n

LetterDirection(c) ==
    CASE c = "A" -> "up" [] c = "B" -> "down" [] c = "C" -> "right"
      [] c = "D" -> "left"

\* Raw characters at the terminal: a cursor move ESC [ n A/B/C/D moves the
\* cursor; the other sequences written here (colours, italic) leave the cursor
\* and the cells alone.
ApplyRaw(t, text) ==
    IF /\ Len(text) >= 3
       /\ text[1] = ESC
       /\ text[2] = "["
       /\ text[Len(text)] \in {"A", "B", "C", "D"}
    THEN [t EXCEPT !.cursor =
            Step(t.cursor, LetterDirection(text[Len(text)]), MoveCount(text))]
    ELSE t

\* One chunk at the terminal.
Apply(t, c) ==
    CASE c.cmd = "MoveTo" ->
            [t EXCEPT !.cursor = Point(Min(c.x, Width - 1), Min(c.y, Height - 1))]
      [] c.cmd = "MoveToColumn" ->
            [t EXCEPT !.cursor = Point(Min(c.x, Width - 1), t.cursor.y)]
      [] c.cmd = "MoveToRow" ->
            [t EXCEPT !.cursor = Point(t.cursor.x, Min(c.y, Height - 1))]
      [] c.cmd = "MoveUp" -> [t EXCEPT !.cursor = Step(t.cursor, "up", c.x)]
      [] c.cmd = "MoveDown" -> [t EXCEPT !.cursor = Step(t.cursor, "down", c.x)]
      [] c.cmd = "MoveLeft" -> [t EXCEPT !.cursor = Step(t.cursor, "left", c.x)]
      [] c.cmd = "MoveRight" -> [t EXCEPT !.cursor = Step(t.cursor, "right", c.x)]
      [] c.cmd = "SavePosition" -> [t EXCEPT !.saved = t.cursor]
      [] c.cmd = "RestorePosition" -> [t EXCEPT !.cursor = t.saved]
      [] c.cmd = "Clear" ->
            [t EXCEPT !.cells =
                [i \in Cells |->
                    CASE c.text = <<"All">> -> FALSE
                      [] c.text = <<"FromCursorUp">> ->
                            t.cells[i] /\ i > CellIndex(t.cursor)
                      [] c.text = <<"FromCursorDown">> ->
                            t.cells[i] /\ i < CellIndex(t.cursor)
                      [] OTHER -> t.cells[i]]]
      [] c.cmd = "Raw" -> ApplyRaw(t, c.text)
      [] OTHER -> t

\* The terminal t once the chunks of s have reached it, in order.
RECURSIVE Render(_, _)
Render(t, s) ==
    IF s = <<>> THEN t ELSE Render(Apply(t, Head(s)), Tail(s))

\* A mutant of save_cursor_point: the restore command is enqueued instead.
save_cursor_point_as_restore ==
    /\ Emit(Call0("save_cursor_point"), queue(sink, Simple("RestorePosition")))
    /\ IF fault'
       THEN UNCHANGED <<lastSave, overwrote>>
       ELSE /\ lastSave' = Render(term, sink).cursor
            /\ overwrote' = (lastSave # NoPoint
                             /\ lastSave # Render(term, sink).cursor)

save_cursor_point ==
    /\ Emit(Call0("save_cursor_point"), queue(sink, Simple("SavePosition")))
    /\ IF fault'
       THEN UNCHANGED <<lastSave, overwrote>>
       ELSE /\ lastSave' = Render(term, sink).cursor
            /\ overwrote' = (lastSave # NoPoint
                             /\ lastSave # Render(term, sink).cursor)

\* The caller flushes: what is enqueued reaches the terminal, in order.
flush ==
    /\ status = "running"
    /\ sink # <<>>
    /\ term' = Render(term, sink)
    /\ sink' = <<>>
    /\ log' = <<>>
    /\ lastOp' = "flush"
    /\ ret' = Unit
    /\ raw' = NoRaw
    /\ fault' = FALSE
    /\ UNCHANGED <<size, status, lastResize, rawMode, target, lastSave, overwrote>>

\* -------------------------------------------------------------- the input

\* crossterm's raw events, as [type, tag, ch, num, button, modifiers, a, b]:
\* Key (tag: the KeyCode, ch of Char, num of F, modifiers: the KeyModifiers
\* held), Mouse (tag: the MouseEventKind, button, a: column, b: row) and
\* Resize (a: width, b: height).
RawEvent(type, tag, ch, num, button, modifiers, a, b) ==
    [type |-> type, tag |-> tag, ch |-> ch, num |-> num, button |-> button,
     modifiers |-> modifiers, a |-> a, b |-> b]
NoRawEvent == RawEvent("None", "None", "", 0, "None", {}, 0, 0)

Modifiers == {"SHIFT", "CONTROL", "ALT"}
\* The modifier sets of the raw key events read.
ModifierSets == {{}, {"CONTROL"}, {"ALT"}, {"SHIFT", "ALT"}, {"CONTROL", "ALT"}}
\* The key codes of the raw key events read: the ones read_event matches, and
\* some of the others.
SupportedCodes == {"Char", "Left", "Right", "Up", "Down", "Tab", "Enter", "F",
                   "Backspace", "Esc"}
OtherCodes == {"Home", "Delete"}
Chars == {"w", "a"}
Buttons == {"Left", "Middle", "Right"}
ButtonKinds == {"Drag", "Down", "Up"}
PlainKinds == {"Moved", "ScrollUp", "ScrollDown"}

RawKeyEvents ==
    {RawEvent("Key", "Char", c, 0, "None", m, 0, 0) :
        c \in Chars, m \in ModifierSets}
    \cup {RawEvent("Key", "F", "", 1, "None", m, 0, 0) : m \in ModifierSets}
    \cup {RawEvent("Key", code, "", 0, "None", m, 0, 0) :
            code \in (SupportedCodes \ {"Char", "F"}) \cup OtherCodes,
            m \in ModifierSets}
\* Where the raw mouse events read happen: column 7, row 3.
MousePoints == {Point(7, 3)}
RawMouseEvents ==
    {RawEvent("Mouse", k, "", 0, b, {}, p.x, p.y) :
        k \in ButtonKinds, b \in Buttons, p \in MousePoints}
    \cup {RawEvent("Mouse", k, "", 0, "None", {}, p.x, p.y) :
            k \in PlainKinds, p \in MousePoints}
RawResizeEvents ==
    {RawEvent("Resize", "None", "", 0, "None", {}, w, h) :
        w \in Widths, h \in Heights}
RawEvents == RawKeyEvents \cup RawMouseEvents \cup RawResizeEvents

\* The normalized Event, as [type, tag, ch, num, button, modifier, x, y]:
\* Key (tag: the KeyEvent, with ch, num or the optional modifier), Mouse
\* (tag: the MouseEventKind, with its button, at point x, y) and Resize.
Event(type, tag, ch, num, button, modifier, x, y) ==
    [type |-> type, tag |-> tag, ch |-> ch, num |-> num, button |-> button,
     modifier |-> modifier, x |-> x, y |-> y]
NoEvent == Event("None", "None", "", 0, "None", "None", 0, 0)
KeyEvent(tag) == Event("Key", tag, "", 0, "None", "None", 0, 0)
KeyChar(ch, modifier) == Event("Key", "Char", ch, 0, "None", modifier, 0, 0)
KeyBackspace(modifier) == Event("Key", "Backspace", "", 0, "None", modifier, 0, 0)
KeyF(number) == Event("Key", "F", "", number, "None", "None", 0, 0)
MouseEvent(kind, button, x, y) == Event("Mouse", kind, "", 0, button, "None", x, y)
EventResize == Event("Resize", "None", "", 0, "None", "None", 0, 0)

\* Option<Event>.
Some(event) == [kind |-> "Some", ev |-> event]
None == [kind |-> "None", ev |-> NoEvent]

\* The match on event::Event::Mouse(event).
translate_mouse(event) ==
    CASE event.tag = "Moved" -> MouseEvent("Move", "None", event.a, event.b)
      [] event.tag = "Drag" -> MouseEvent("Drag", event.button, event.a, event.b)
      [] event.tag = "Down" -> MouseEvent("Press", event.button, event.a, event.b)
      [] event.tag = "Up" -> MouseEvent("Release", event.button, event.a, event.b)
      [] event.tag = "ScrollUp" -> MouseEvent("ScrollUp", "None", event.a, event.b)
      [] event.tag = "ScrollDown" -> MouseEvent("ScrollDown", "None", event.a, event.b)

\* A mutant of translate_key: the generic Char arm comes before the Ctrl+W arm.
translate_key_char_first(event) ==
    IF event.tag = "Char"
    THEN IF event.modifiers = {"CONTROL"}
         THEN Some(KeyChar(event.ch, "Control"))
         ELSE Some(KeyChar(event.ch, "None"))
    ELSE IF event.tag = "Backspace" THEN Some(KeyBackspace("None"))
    ELSE IF event.tag \in SupportedCodes
    THEN Some(IF event.tag = "F" THEN KeyF(event.num) ELSE KeyEvent(event.tag))
    ELSE None

\* A mutant of translate_key: a key with modifiers other than Control alone
\* is dropped.
translate_key_filtering(event) ==
    IF event.modifiers \notin {{}, {"CONTROL"}} THEN None
    ELSE translate_key_char_first(event)

\* A mutant of translate_key: the last arm catches every other key code.
translate_key_catch_all(event) ==
    IF translate_key_char_first(event) = None
    THEN Some(KeyEvent("Esc"))
    ELSE translate_key_char_first(event)

\* The match on event::Event::Key(KeyEvent { code, modifiers }), its arms in
\* the order of the source: Some(the Event), or None for the `_` arm.
translate_key(event) ==
    IF event.tag = "Char" /\ event.ch = "w" /\ event.modifiers = {"CONTROL"}
    THEN Some(KeyBackspace("Control"))
    ELSE IF event.tag = "Char"
    THEN IF event.modifiers = {"CONTROL"}
         THEN Some(KeyChar(event.ch, "Control"))
         ELSE Some(KeyChar(event.ch, "None"))
    ELSE IF event.tag = "Left" THEN Some(KeyEvent("Left"))
    ELSE IF event.tag = "Right" THEN Some(KeyEvent("Right"))
    ELSE IF event.tag = "Up" THEN Some(KeyEvent("Up"))
    ELSE IF event.tag = "Down" THEN Some(KeyEvent("Down"))
    ELSE IF event.tag = "Tab" THEN Some(KeyEvent("Tab"))
    ELSE IF event.tag = "Enter" THEN Some(KeyEvent("Enter"))
    ELSE IF event.tag = "F" THEN Some(KeyF(event.num))
    ELSE IF event.tag = "Backspace" THEN Some(KeyBackspace("None"))
    ELSE IF event.tag = "Esc" THEN Some(KeyEvent("Esc"))
    ELSE None

\* A mutant of translate: a Resize stores its height as the width and its
\* width as the height.
translate_resize_swapped(crossterm_event, sz) ==
    CASE crossterm_event.type = "Mouse" ->
            [ret |-> Some(translate_mouse(crossterm_event)), size |-> sz]
      [] crossterm_event.type = "Key" ->
            [ret |-> translate_key(crossterm_event), size |-> sz]
      [] crossterm_event.type = "Resize" ->
            [ret |-> Some(EventResize),
             size |-> MkSize(crossterm_event.b, crossterm_event.a)]

\* The body of read_event after the read: the value returned and the new
\* self.size, for the raw event read and the self.size before.
translate(crossterm_event, sz) ==
    CASE crossterm_event.type = "Mouse" ->
            [ret |-> Some(translate_mouse(crossterm_event)), size |-> sz]
      [] crossterm_event.type = "Key" ->
            [ret |-> translate_key(crossterm_event), size |-> sz]
      [] crossterm_event.type = "Resize" ->
            [ret |-> Some(EventResize),
             size |-> MkSize(crossterm_event.a, crossterm_event.b)]

\* What crossterm::event::read() may return: Err, or Ok(a raw event).
ReadResults ==
    {[read |-> "Err", ev |-> NoRawEvent]}
    \cup {[read |-> "Ok", ev |-> e] : e \in RawEvents}

\* self.read_event(), called as `op` after the poll answered `polled`:
\* crossterm::event::read().unwrap(), then the translation.
Read(op, polled) ==
    /\ status = "running"
    /\ \E result \in ReadResults :
        /\ raw' = [poll |-> polled, read |-> result.read, ev |-> result.ev]
        /\ fault' = (result.read = "Err")
        /\ IF result.read = "Err"
           THEN /\ status' = "panicked"
                /\ ret' = Unit
                /\ UNCHANGED <<size, lastResize>>
           ELSE /\ status' = "running"
                /\ ret' = translate(result.ev, size).ret
                /\ size' = translate(result.ev, size).size
                /\ lastResize' = IF result.ev.type = "Resize"
                                 THEN MkSize(result.ev.a, result.ev.b)
                                 ELSE lastResize
    /\ lastOp' = op
    /\ UNCHANGED <<sink, log, rawMode, target, term, lastSave, overwrote>>

read_event == Read("read_event", "none")

\* poll_event(timeout): crossterm::event::poll(timeout) answers Ok(true),
\* Ok(false) when the timeout expired, or Err.
poll_event ==
    \/ Read("poll_event", "OkTrue")
    \/ /\ status = "running"
       /\ \E polled \in {"OkFalse", "Err"} :
            /\ raw' = [poll |-> polled, read |-> "none", ev |-> NoRawEvent]
            /\ fault' = (polled = "Err")
       /\ ret' = None
       /\ status' = "running"
       /\ lastOp' = "poll_event"
       /\ UNCHANGED <<sink, log, size, lastResize, rawMode, target, term,
                      lastSave, overwrote>>

\* An operation that only calls the OS: it succeeds with `result` and the raw
\* mode `mode`, or its .unwrap() panics.
OsCall(op, result, mode) ==
    /\ status = "running"
    /\ \E ok \in BOOLEAN :
        /\ fault' = ~ok
        /\ status' = IF ok THEN "running" ELSE "panicked"
        /\ ret' = IF ok THEN result ELSE Unit
        /\ rawMode' = IF ok THEN mode ELSE rawMode
    /\ lastOp' = op
    /\ raw' = NoRaw
    /\ UNCHANGED <<sink, log, size, lastResize, target, term, lastSave, overwrote>>

enable_raw_mode == OsCall("enable_raw_mode", Unit, TRUE)

disable_raw_mode == OsCall("disable_raw_mode", Unit, FALSE)

\* Terminal::size(): the static query of the OS, which has no self.
Terminal_size ==
    \E w \in Widths, h \in Heights :
        OsCall("size", [kind |-> "Size", size |-> MkSize(w, h)], rawMode)

\* ---------------------------------------------------------- specifications

Init ==
    /\ sink = <<>>
    /\ log = <<>>
    /\ size \in Sizes
    /\ lastResize = size
    /\ ret = Unit
    /\ raw = NoRaw
    /\ status = "running"
    /\ lastOp = "new"
    /\ fault = FALSE
    /\ rawMode = FALSE
    /\ target \in {"windows", "other"}
    /\ \E p \in Points :
          term = [cursor |-> p, saved |-> Point(0, 0),
                  cells |-> [i \in Cells |-> TRUE]]
    /\ lastSave = NoPoint
    /\ overwrote = FALSE

\* Every output operation, with nothing flushed in between.
NextQueue ==
    /\ Len(sink) < MaxOps
    /\ \/ enter_alternate_dimension
       \/ exit_alternate_dimension
       \/ set_title
       \/ enable_mouse_capture
       \/ disable_mouse_capture
       \/ show_cursor
       \/ hide_cursor
       \/ set_cursor
       \/ set_cursor_x
       \/ set_cursor_y
       \/ move_cursor_by
       \/ move_cursor
       \/ save_cursor_point
       \/ restore_cursor_point
       \/ set_foreground_color
       \/ set_background_color
       \/ change_foreground_color
       \/ reset_foreground_color
       \/ change_background_color
       \/ reset_background_color
       \/ change_cursor_color
       \/ reset_cursor_color
       \/ enable_italic
       \/ disable_italic
       \/ reset_colors
       \/ clear
       \/ clear_from_cursor_to_end

\* The terminal starts with its cursor at home and one known size.
InitHome ==
    /\ Init
    /\ size = MkSize(80, 40)
    /\ term.cursor = Point(0, 0)

SpecQueue == InitHome /\ [][NextQueue]_vars

\* The input operations and the OS calls, among output operations of both
\* paths (queue and write) and the caller's flushes.
NextEvents ==
    \/ read_event
    \/ poll_event
    \/ enable_raw_mode
    \/ disable_raw_mode
    \/ Terminal_size
    \/ /\ Len(sink) < MaxPending
       /\ \/ enable_mouse_capture
          \/ disable_mouse_capture
          \/ hide_cursor
          \/ enable_italic
    \/ flush

\* The input operations are the same code in both builds: one build is read.
InitEvents ==
    /\ InitHome
    /\ target = "other"

SpecEvents == InitEvents /\ [][NextEvents]_vars

\* The terminal's cursor may be anywhere when the Terminal is constructed.
InitAnywhere ==
    /\ Init
    /\ size = MkSize(80, 40)

\* The cursor operations and the caller's flushes.
NextCursor ==
    \/ /\ Len(sink) < MaxPending
       /\ \/ set_cursor
          \/ move_cursor_by
          \/ move_cursor
          \/ save_cursor_point
          \/ restore_cursor_point
    \/ flush

SpecCursor == InitAnywhere /\ [][NextCursor]_vars

\* The clearing operations, with cursor moves and the caller's flushes.
NextClear ==
    \/ /\ Len(sink) < MaxPending
       /\ \/ set_cursor
          \/ move_cursor
          \/ clear
          \/ clear_from_cursor_to_end
    \/ flush

SpecClear == InitAnywhere /\ [][NextClear]_vars

\* ------------------------------------------------------------------ claims

\* The chunk each output operation is to put into the sink.
Encoding(call) ==
    LET op == call.op
        osc(code) == Raw(<<ESC, "]">> \o code \o <<";", "#">> \o call.text
                         \o <<BEL>>)
        move(cmd, letter) ==
            IF target = "windows"
            THEN Command(cmd, 1, 0, NoColor, <<>>)
            ELSE Raw(<<ESC, "[", letter>>)
    IN  CASE op = "enter_alternate_dimension" -> Simple("EnterAlternateScreen")
          [] op = "exit_alternate_dimension" -> Simple("LeaveAlternateScreen")
          [] op = "set_title" -> Command("SetTitle", 0, 0, NoColor, call.text)
          [] op = "enable_mouse_capture" -> Simple("EnableMouseCapture")
          [] op = "disable_mouse_capture" -> Simple("DisableMouseCapture")
          [] op = "show_cursor" -> Simple("Show")
          [] op = "hide_cursor" -> Simple("Hide")
          [] op = "set_cursor" -> Command("MoveTo", call.x, call.y, NoColor, <<>>)
          [] op = "set_cursor_x" -> Command("MoveToColumn", call.x, 0, NoColor, <<>>)
          [] op = "set_cursor_y" -> Command("MoveToRow", 0, call.y, NoColor, <<>>)
          [] op = "move_cursor_up_by" -> Command("MoveUp", call.x, 0, NoColor, <<>>)
          [] op = "move_cursor_down_by" -> Command("MoveDown", call.x, 0, NoColor, <<>>)
          [] op = "move_cursor_left_by" -> Command("MoveLeft", call.x, 0, NoColor, <<>>)
          [] op = "move_cursor_right_by" -> Command("MoveRight", call.x, 0, NoColor, <<>>)
          [] op = "move_cursor_up" -> move("MoveUp", "A")
          [] op = "move_cursor_down" -> move("MoveDown", "B")
          [] op = "move_cursor_left" -> move("MoveLeft", "D")
          [] op = "move_cursor_right" -> move("MoveRight", "C")
          [] op = "save_cursor_point" -> Simple("SavePosition")
          [] op = "restore_cursor_point" -> Simple("RestorePosition")
          [] op = "set_foreground_color" ->
                Command("SetForegroundColor", 0, 0, convert_color(call.color), <<>>)
          [] op = "set_background_color" ->
                Command("SetBackgroundColor", 0, 0, convert_color(call.color), <<>>)
          [] op = "change_foreground_color" -> osc(<<"1", "0">>)
          [] op = "reset_foreground_color" -> Raw(<<ESC, "]", "1", "1", "0", BEL>>)
          [] op = "change_background_color" -> osc(<<"1", "1">>)
          [] op = "reset_background_color" -> Raw(<<ESC, "]", "1", "1", "1", BEL>>)
          [] op = "change_cursor_color" -> osc(<<"1", "2">>)
          [] op = "reset_cursor_color" -> Raw(<<ESC, "]", "1", "1", "2", BEL>>)
          [] op = "enable_italic" -> Raw(<<ESC, "[", "3", "m">>)
          [] op = "disable_italic" -> Raw(<<ESC, "[", "2", "3", "m">>)
          [] op = "reset_colors" -> Simple("ResetColor")
          [] op = "clear" -> Command("Clear", 0, 0, NoColor, <<"All">>)
          [] op = "clear_from_cursor_to_end" ->
                Command("Clear", 0, 0, NoColor, <<"FromCursorUp">>)

\* C1: after any sequence of output operations, structured or raw, the sink
\* holds exactly one chunk per operation called, each operation's encoding, in
\* the order of the calls: nothing is reordered, dropped, duplicated or
\* flushed, and raw writes sit in the same sink as the structured commands.
C1_SinkIsCallsInOrder ==
    /\ Len(sink) = Len(log)
    /\ \A i \in 1 .. Len(log) : sink[i] = Encoding(log[i])

\* C1 witness: a structured colour command, then a raw escape write, are in
\* the sink in that order.
C1_Witness ==
    /\ Len(log) = 2
    /\ log[1].op = "set_foreground_color"
    /\ log[2].op = "change_foreground_color"
    /\ sink[1].cmd = "SetForegroundColor"
    /\ sink[2] = Raw(<<ESC, "]", "1", "0", ";", "#", "F", "F", "0", "0", "F", "F", BEL>>)

\* The last operation read a raw event and translated it.
Translated == raw.read = "Ok"
TranslatedKey == Translated /\ raw.ev.type = "Key"

\* C2: the cached Size is that of the last raw Resize event translated, or
\* the initial one; translating Resize(w, h) sets it to {w, h} and returns the
\* payload-free Event::Resize; nothing else changes it.
C2_SizeIsLastResize ==
    /\ size = lastResize
    /\ (Translated /\ raw.ev.type = "Resize") =>
            /\ size = MkSize(raw.ev.a, raw.ev.b)
            /\ ret = Some(EventResize)

\* C2 witness: poll_event translated Resize(120, 40) in a Terminal that
\* started at 80 x 40.
C2_Witness ==
    /\ lastOp = "poll_event"
    /\ Translated
    /\ raw.ev.type = "Resize"
    /\ raw.ev.a = 120
    /\ size = MkSize(120, 40)
    /\ ret = Some(EventResize)

\* C3: a raw key event with a key code outside the supported set makes
\* read_event return None without failing, with the cached Size and the sink
\* as they were.
C3_UnsupportedKeyIsDropped ==
    [][(raw'.read = "Ok" /\ raw'.ev.type = "Key"
            /\ raw'.ev.tag \notin SupportedCodes)
        => /\ ret' = None
           /\ status' = "running"
           /\ size' = size
           /\ sink' = sink]_vars

\* C3 witness: read_event returned None for the Home key, with a chunk in the
\* sink and a Size that a Resize had set.
C3_Witness ==
    /\ lastOp = "read_event"
    /\ TranslatedKey
    /\ raw.ev.tag = "Home"
    /\ ret = None
    /\ status = "running"
    /\ sink # <<>>
    /\ size = MkSize(120, 40)

IsCtrlW(e) ==
    e.type = "Key" /\ e.tag = "Char" /\ e.ch = "w" /\ e.modifiers = {"CONTROL"}

C5_CharModifier ==
    (TranslatedKey /\ raw.ev.tag = "Char" /\ ~IsCtrlW(raw.ev)) =>
        ret = Some(KeyChar(raw.ev.ch,
                           IF "CONTROL" \in raw.ev.modifiers
                           THEN "Control" ELSE "None"))

\* The modifier sets the normalized model has no name for.
Unrecognized(m) == m \notin {{}, {"CONTROL"}}

\* C6, as claimed: a raw key event with an unrecognized modifier combination
\* produces no event.
C6_UnrecognizedModifiersDropped ==
    (TranslatedKey /\ Unrecognized(raw.ev.modifiers)) =>
        ret = None /\ status = "running"

\* C6, amended: a raw key event with an unrecognized modifier combination is
\* not dropped for it and does not fail: None is returned only for an
\* unsupported key code, and a combination without Control gives the event
\* the key gives with no modifier at all.
C6_UnrecognizedModifiersIgnored ==
    (TranslatedKey /\ Unrecognized(raw.ev.modifiers)) =>
        /\ status = "running"
        /\ (ret = None) <=> (raw.ev.tag \notin SupportedCodes)
        /\ "CONTROL" \notin raw.ev.modifiers =>
                ret = translate_key([raw.ev EXCEPT !.modifiers = {}])

\* C6 witness: Char('a') with Alt came back as Char('a', None).
C6_Witness ==
    /\ TranslatedKey
    /\ raw.ev.tag = "Char"
    /\ raw.ev.ch = "a"
    /\ raw.ev.modifiers = {"ALT"}
    /\ ret = Some(KeyChar("a", "None"))

\* C7: a failed backend call is always escalated, and poll_event returns
\* None only when the timeout expired or the event read was unrecognized.
C7_FailuresAreFatal ==
    /\ fault => status = "panicked"
    /\ (lastOp = "poll_event" /\ status = "running" /\ ret = None) =>
            \/ raw.poll = "OkFalse"
            \/ raw.poll = "OkTrue" /\ TranslatedKey
                    /\ raw.ev.tag \notin SupportedCodes

\* The terminal as it will be once everything enqueued has reached it, and as
\* it would be without the last chunk.
Shown == Render(term, sink)
ShownBefore == Render(term, SubSeq(sink, 1, Len(sink) - 1))

\* C8: save and restore are one slot: a restore puts the cursor where it was
\* at the last save_cursor_point, whatever was saved before; the Terminal
\* only enqueues the save and the restore command, in order.
C8_RestoreReturnsToLastSave ==
    /\ (lastOp = "save_cursor_point" /\ ~fault) =>
            sink[Len(sink)] = Simple("SavePosition")
    /\ (lastOp = "restore_cursor_point" /\ ~fault) =>
            /\ sink[Len(sink)] = Simple("RestorePosition")
            /\ lastSave # NoPoint => Shown.cursor = lastSave

\* C8 witness: two saves at different positions, a move elsewhere, and a
\* restore that returned to the second.
C8_Witness ==
    /\ lastOp = "restore_cursor_point"
    /\ ~fault
    /\ overwrote
    /\ ShownBefore.cursor # lastSave
    /\ Shown.cursor = lastSave

\* C9: the raw write ESC [ A/B/D/C and the structured move by 1 each put one
\* chunk at the tail of the same sink, behind what is enqueued, and that chunk
\* leaves the cursor at the same place, one cell further or at the edge, from
\* every cursor position and every content of the sink.
C9_SingleCellMovesAgree ==
    \A shown \in {Shown}, dir \in Directions :
        \A other \in {move_cursor_other(sink, dir)},
           windows \in {move_cursor_windows(sink, dir)},
           by1 \in {move_cursor_by_sink(sink, dir, 1)} :
            /\ Len(other) = Len(sink) + 1
            /\ Len(windows) = Len(sink) + 1
            /\ Len(by1) = Len(sink) + 1
            /\ SubSeq(other, 1, Len(sink)) = sink
            /\ SubSeq(windows, 1, Len(sink)) = sink
            /\ SubSeq(by1, 1, Len(sink)) = sink
            /\ other[Len(other)].cmd = "Raw"
            /\ \A moved \in {Apply(shown, other[Len(other)]).cursor} :
                /\ moved = Apply(shown, windows[Len(windows)]).cursor
                /\ moved = Apply(shown, by1[Len(by1)]).cursor
                /\ moved = Step(shown.cursor, dir, 1)

\* C9 witness: the raw move_cursor_left was enqueued behind a cursor at the
\* left edge, and the cursor stays there.
C9_Witness ==
    /\ lastOp = "move_cursor_left"
    /\ target = "other"
    /\ ~fault
    /\ sink[Len(sink)] = Raw(<<ESC, "[", "D">>)
    /\ ShownBefore.cursor = Point(0, 1)
    /\ Shown.cursor = Point(0, 1)

\* C10: clear_from_cursor_to_end enqueues one command that clears the cells
\* at and after the cursor and leaves the cells before it; clear enqueues one
\* command that clears every cell.
C10_ClearToEnd ==
    /\ (lastOp = "clear" /\ ~fault) =>
            \A i \in Cells : ~Shown.cells[i]
    /\ (lastOp = "clear_from_cursor_to_end" /\ ~fault) =>
            \A i \in Cells :
                Shown.cells[i] =
                    (ShownBefore.cells[i] /\ i < CellIndex(ShownBefore.cursor))

====
